---- MODULE Spec2Model ----
(***************************************************************************)
(* A model of server.js: the MIDI-timecode decoder, the OSC cue/act        *)
(* extractor, the socket.io session registry and the handlers that mutate  *)
(* globalState.                                                            *)
(*                                                                         *)
(* Conventions.                                                            *)
(*  - Text that the code inspects character by character (display names,   *)
(*    client addresses, OSC addresses and payloads) is a sequence of       *)
(*    one-character strings; text the code only stores and copies is a     *)
(*    string.                                                              *)
(*  - A JavaScript null / undefined slot is the empty sequence <<>> and a  *)
(*    present value v is <<v>>.                                            *)
(*  - frameRate is kept in hundredths of a frame per second, so that the   *)
(*    table entry 29.97 is the integer 2997.                               *)
(*  - outbox is the list of emissions made by the handler that ran last:   *)
(*    [to |-> set of sockets, ev |-> event name, data |-> payload].        *)
(***************************************************************************)
EXTENDS Integers, Sequences, FiniteSets, TLC

\* ------------------------------------------------------------------ bounds
\* number of events (connections, disconnections, timer callbacks, client
\* events, OSC and MIDI messages) the server handles in a run of Spec
MaxEvents == 4
\* number of events the server handles in a run of SpecRegistry
MaxRegistryEvents == 6
\* number of sockets that connect
MaxSockets == 3
\* number of quarter-frame messages the MIDI port delivers in a run of
\* SpecMTC (see MayDeliver for the runs that go on beyond it)
MaxFragments == 4
\* number of events the server handles in a run of SpecOsc
MaxOscEvents == 5
\* number of OSC messages the server handles in a run of SpecCue, and the
\* length of the longest payload among them
MaxCueEvents == 2
MaxPayload == 4
\* number of events the server handles in a run of SpecBoundary
MaxBoundaryEvents == 4
\* number of chat messages the participants submit in a run of SpecChat
MaxChat == 105
\* nibble values the MIDI port delivers (a subset of 0..15)
NibbleValues == {0, 13}

VARIABLES
    \* ---- MIDI timecode decoder
    quarterFrameData,      \* let quarterFrameData = new Array(8).fill(0)
    lastQuarterFrame,      \* let lastQuarterFrame = -1
    lastFullTimecode,      \* let lastFullTimecode = null
    mtcMessagesReceived,   \* let mtcMessagesReceived = 0
    timecode,              \* globalState.timecode
    \* ---- emissions of the handler that ran last
    outbox,
    \* ---- observation of the decoder's run (not program state)
    tcUpdates,             \* see ObserveCycle1
    cycle1,                \* see ObserveCycle1
    redo,                  \* see ObserveRedo
    lastNibble             \* see ParseEasyMIDIMTC

decoderVars == <<quarterFrameData, lastQuarterFrame, lastFullTimecode,
                 mtcMessagesReceived, timecode>>
decoderObs == <<tcUpdates, cycle1, redo, lastNibble>>

VARIABLES
    \* ---- what the start-up found
    midiAvailable,         \* midiInput is not null
    oscAvailable,          \* oscServer is not null
    \* ---- session registry
    users,                 \* globalState.users: socket id -> user object
    anonymousUsers,        \* globalState.anonymousUsers: socket id -> ip
    timers,                \* sockets whose 15-minute setTimeout is pending
    nextSocket,            \* the id the next connecting socket gets
    \* ---- shared production state
    notes,                 \* globalState.notes
    tags,                  \* globalState.tags
    chatMessages,          \* globalState.chatMessages
    timeMode,              \* globalState.timeMode
    currentLxCue,          \* globalState.currentLxCue
    currentAct,            \* globalState.currentAct
    nextId,                \* number of ids generated so far
    \* ---- observation of the run (not program state)
    forced,                \* sockets on which socket.disconnect(true) was called
    events,                \* number of events handled so far
    lastOsc,               \* see NextOsc
    crashed                \* the uncaughtException handler has ended the process

startVars == <<midiAvailable, oscAvailable>>
sessionVars == <<users, anonymousUsers, timers, nextSocket>>
sharedVars == <<notes, tags, chatMessages, timeMode, currentLxCue, currentAct, nextId>>
vars == <<decoderVars, outbox, decoderObs, startVars, sessionVars, sharedVars,
          forced, events, lastOsc, crashed>>

\* ------------------------------------------------------------ bit operators
RECURSIVE BitAnd(_, _)
\* a & b on non-negative integers
BitAnd(a, b) ==
    IF a = 0 \/ b = 0 THEN 0
    ELSE (IF a % 2 = 1 /\ b % 2 = 1 THEN 1 ELSE 0) + 2 * BitAnd(a \div 2, b \div 2)

RECURSIVE BitOr(_, _)
\* a | b on non-negative integers
BitOr(a, b) ==
    IF a = 0 THEN b
    ELSE IF b = 0 THEN a
    ELSE (IF a % 2 = 1 \/ b % 2 = 1 THEN 1 ELSE 0) + 2 * BitOr(a \div 2, b \div 2)

\* a << n and a >> n on non-negative integers below 2^31
ShiftLeft(a, n) == a * (2 ^ n)
ShiftRight(a, n) == a \div (2 ^ n)

\* ------------------------------------------------------------ the decoder
\* const frameRates = { 0: 24, 1: 25, 2: 29.97, 3: 30 }
frameRates == [c \in 0..3 |-> CASE c = 0 -> 2400 [] c = 1 -> 2500
                                [] c = 2 -> 2997 [] c = 3 -> 3000]

\* frameRates[rateCode] || 30
FrameRateOf(rateCode) ==
    IF rateCode \in DOMAIN frameRates /\ frameRates[rateCode] # 0
    THEN frameRates[rateCode] ELSE 3000

\* NewTimecode with the hours masked by 0x0F instead of 0x1F
NewTimecode_Mask15(q) ==
    LET frames == BitOr(ShiftLeft(q[1], 4), q[0])
        seconds == BitOr(ShiftLeft(q[3], 4), q[2])
        minutes == BitOr(ShiftLeft(q[5], 4), q[4])
        hoursAndRate == BitOr(ShiftLeft(q[7], 4), q[6])
        hours == BitAnd(hoursAndRate, 15)
        rateCode == BitAnd(ShiftRight(hoursAndRate, 5), 3)
    IN [hours |-> hours, minutes |-> minutes, seconds |-> seconds,
        frames |-> frames, frameRate |-> FrameRateOf(rateCode),
        source |-> "midi"]

\* the newTimecode that parseCompleteMTC builds from the buffer q (slots 0..7)
NewTimecode(q) ==
    LET frames == BitOr(ShiftLeft(q[1], 4), q[0])
        seconds == BitOr(ShiftLeft(q[3], 4), q[2])
        minutes == BitOr(ShiftLeft(q[5], 4), q[4])
        hoursAndRate == BitOr(ShiftLeft(q[7], 4), q[6])
        hours == BitAnd(hoursAndRate, 31)
        rateCode == BitAnd(ShiftRight(hoursAndRate, 5), 3)
    IN [hours |-> hours, minutes |-> minutes, seconds |-> seconds,
        frames |-> frames, frameRate |-> FrameRateOf(rateCode),
        source |-> "midi"]

\* TimecodeChanged without the comparison of the fields
TimecodeChanged_Always(last, new) == TRUE

\* the condition under which parseCompleteMTC replaces and emits
TimecodeChanged(last, new) ==
    \/ last = <<>>
    \/ last[1].hours # new.hours
    \/ last[1].minutes # new.minutes
    \/ last[1].seconds # new.seconds
    \/ last[1].frames # new.frames

\* ------------------------------------------------------------------- text
\* the upper-case letters that occur in the model's texts, and toLowerCase
\* of one character
LowerOf == [c \in {"A", "B", "O", "P"} |->
              CASE c = "A" -> "a" [] c = "B" -> "b" [] c = "O" -> "o" [] c = "P" -> "p"]
ToLowerChar(c) == IF c \in DOMAIN LowerOf THEN LowerOf[c] ELSE c

\* String.prototype.toLowerCase
ToLowerCase(str) == [i \in 1..Len(str) |-> ToLowerChar(str[i])]

\* the characters String.prototype.trim removes
IsWhitespace(c) == c \in {" ", "\t", "\n"}

RECURSIVE TrimStart(_)
TrimStart(str) ==
    IF str # <<>> /\ IsWhitespace(Head(str)) THEN TrimStart(Tail(str)) ELSE str

RECURSIVE TrimEnd(_)
TrimEnd(str) ==
    IF str # <<>> /\ IsWhitespace(str[Len(str)])
    THEN TrimEnd(SubSeq(str, 1, Len(str) - 1)) ELSE str

\* a trim that removes the leading whitespace only
Trim_StartOnly(str) == TrimStart(str)

\* String.prototype.trim
Trim(str) == TrimEnd(TrimStart(str))

\* String.prototype.startsWith
StartsWith(str, prefix) ==
    /\ Len(str) >= Len(prefix)
    /\ SubSeq(str, 1, Len(prefix)) = prefix

\* clientIP.replace(/^.*:/, ''): drops everything up to the last colon
StripToLastColon(clientIP) ==
    LET colons == {i \in 1..Len(clientIP) : clientIP[i] = ":"}
    IN IF colons = {} THEN clientIP
       ELSE SubSeq(clientIP, (CHOOSE i \in colons : \A j \in colons : j <= i) + 1,
                   Len(clientIP))

\* a match that takes the whole value as group 1, slash or not
CueMatch_Whole(value) == IF value = <<>> THEN <<>> ELSE <<value>>

\* value.match(/[^/]+\/(.+)/): <<>> when there is no match, else <<group 1>>.
\* The match starts at the first character that is not a slash and from
\* which a run of non-slash characters reaches a slash that is followed by
\* at least one character; group 1 is all that follows that slash.
CueMatch(value) ==
    LET slashes == {j \in 2..(Len(value) - 1) :
                        value[j] = "/" /\ value[j - 1] # "/" /\ value[j + 1] # "\n"}
    IN IF slashes = {} THEN <<>>
       ELSE LET j == CHOOSE k \in slashes : \A m \in slashes : k <= m
                eol == {k \in (j + 1)..Len(value) : value[k] = "\n"}
                last == IF eol = {} THEN Len(value)
                        ELSE (CHOOSE k \in eol : \A m \in eol : k <= m) - 1
            IN <<SubSeq(value, j + 1, last)>>

\* a test that takes every string for empty
Truthy_Never(opt) == FALSE

\* a JavaScript string is truthy when it is not empty; an absent one is not
Truthy(opt) == opt # <<>> /\ opt[1] # <<>>
\* the same for a text that is kept as a string
TruthyText(opt) == opt # <<>> /\ opt[1] # ""

\* ----------------------------------------------------------- OSC addresses
ActiveCueAddress == <<"/", "e", "o", "s", "/", "o", "u", "t", "/", "a", "c", "t", "i", "v", "e", "/", "c", "u", "e", "/", "t", "e", "x", "t">>
PendingCueAddress == <<"/", "e", "o", "s", "/", "o", "u", "t", "/", "p", "e", "n", "d", "i", "n", "g", "/", "c", "u", "e", "/", "t", "e", "x", "t">>
ActPrefix == <<"/", "b", "t", "s", "/">>

\* ------------------------------------------------------------ start values
\* globalState.timecode as the literal gives it
InitialTimecode == [hours |-> 0, minutes |-> 0, seconds |-> 0, frames |-> 0,
                    frameRate |-> 3000, source |-> "midi"]
\* currentLxCue: '1' and currentAct: 'Preshow'
InitialLxCue == <<"1">>
InitialAct == <<"P", "r", "e", "s", "h", "o", "w">>

\* the tags of the catch branch that runs when tags.json cannot be read
DefaultTags == <<
    [id |-> "safety", name |-> "Safety/Show Critical", color |-> "#E63946"],
    [id |-> "lighting", name |-> "Lighting", color |-> "#00B4D8"],
    [id |-> "sound", name |-> "Sound", color |-> "#06D6A0"],
    [id |-> "stage", name |-> "Stage", color |-> "#118AB2"],
    [id |-> "dsm", name |-> "DSM", color |-> "#8AC926"],
    [id |-> "set", name |-> "Set", color |-> "#FF6f91"] >>


\* io.emit(ev, data): one emission to every connected socket
IoEmit(ev, data) == [to |-> DOMAIN users, ev |-> ev, data |-> data]
\* a socket.emit that goes to every connected socket
SocketEmit_Broadcast(s, ev, data) == [to |-> DOMAIN users, ev |-> ev, data |-> data]

\* socket.emit(ev, data): one emission to the socket s
SocketEmit(s, ev, data) == [to |-> {s}, ev |-> ev, data |-> data]

\* the emissions of event ev in the outbox ob
EmissionsOf(ob, ev) == {i \in DOMAIN ob : ob[i].ev = ev}

\* ------------------------------------------------------------ the registry
\* referer.includes('overlay.html') for the referers the model connects with
OverlayReferers == {"http://host/overlay.html"}
RefererIncludesOverlay(referer) == referer \in OverlayReferers

\* 'Overlay-'
OverlayPrefix == <<"O", "v", "e", "r", "l", "a", "y", "-">>

RECURSIVE Ascending(_)
\* the elements of a set of integers in ascending order: the order in which
\* a Map keyed by the socket ids, which are handed out in ascending order,
\* is iterated
Ascending(S) ==
    IF S = {} THEN <<>>
    ELSE LET m == CHOOSE x \in S : \A y \in S : x <= y
         IN <<m>> \o Ascending(S \ {m})

\* FilteredUsers without the filter
FilteredUsers_All(u) ==
    LET ids == Ascending(DOMAIN u)
    IN [k \in 1..Len(ids) |-> u[ids[k]]]

\* Array.from(globalState.users.values()).filter(u => !u.isOverlay)
FilteredUsers(u) ==
    LET ids == Ascending({i \in DOMAIN u : ~u[i].isOverlay})
    IN [k \in 1..Len(ids) |-> u[ids[k]]]

\* the ids that Date.now() + Math.random() and generateId() produce: the
\* n-th generated id; no two generated ids are equal
GeneratedIds == <<"id1", "id2", "id3", "id4", "id5", "id6", "id7", "id8", "id9">>
GenerateId(n) ==
    IF n < Len(GeneratedIds) THEN GeneratedIds[n + 1] ELSE "id" \o ToString(n + 1)

\* the colors getRandomColor() picks from
RandomColors == {"#FF6B6B", "#4ECDC4", "#45B7D1", "#96CEB4",
                 "#FFEAA7", "#DDA0DD", "#98D8C8", "#F7DC6F"}

\* DisconnectHandler with the roster taken before the session is removed
DisconnectHandler_StaleRoster(u, s) ==
    IF s \in DOMAIN u
    THEN LET rest == [i \in DOMAIN u \ {s} |-> u[i]]
             filteredUsers == FilteredUsers(u)
         IN [users |-> rest,
             out |-> IF ~u[s].isOverlay
                     THEN << [to |-> DOMAIN rest, ev |-> "user-left",
                              data |-> [user |-> u[s].name,
                                        userCount |-> Len(filteredUsers)]],
                             [to |-> DOMAIN rest, ev |-> "users-update",
                              data |-> filteredUsers] >>
                     ELSE <<>>]
    ELSE [users |-> u, out |-> <<>>]

\* socket.on('disconnect') for socket s on the registry u: the registry and
\* the emissions it leaves
DisconnectHandler(u, s) ==
    IF s \in DOMAIN u
    THEN LET rest == [i \in DOMAIN u \ {s} |-> u[i]]
             filteredUsers == FilteredUsers(rest)
         IN [users |-> rest,
             out |-> IF ~u[s].isOverlay
                     THEN << [to |-> DOMAIN rest, ev |-> "user-left",
                              data |-> [user |-> u[s].name,
                                        userCount |-> Len(filteredUsers)]],
                             [to |-> DOMAIN rest, ev |-> "users-update",
                              data |-> filteredUsers] >>
                     ELSE <<>>]
    ELSE [users |-> u, out |-> <<>>]

\* io.on('connection') for a socket that connects from clientIP with the
\* referer header referer (<<>> when the header is absent)
Connect(clientIP, referer) ==
    LET s == nextSocket
        userIP == StripToLastColon(clientIP)
        isOverlay == referer # <<>> /\ RefererIncludesOverlay(referer[1])
        user == [id |-> s,
                 name |-> IF isOverlay THEN OverlayPrefix \o userIP ELSE userIP,
                 isTyping |-> FALSE,
                 currentTimecode |-> <<>>,
                 currentLxCue |-> <<>>,
                 isOverlay |-> isOverlay,
                 isAnonymous |-> ~isOverlay]
        u == [i \in DOMAIN users \cup {s} |-> IF i = s THEN user ELSE users[i]]
        filteredUsers == FilteredUsers(u)
        state == << SocketEmit(s, "act-update", currentAct),
                    SocketEmit(s, "timecode-update", timecode),
                    SocketEmit(s, "notes-update", notes),
                    SocketEmit(s, "tags-update", tags),
                    SocketEmit(s, "time-mode-update", timeMode),
                    SocketEmit(s, "lx-cue-update", currentLxCue),
                    SocketEmit(s, "system-status",
                               [midiAvailable |-> midiAvailable,
                                mtcMessagesReceived |-> mtcMessagesReceived,
                                oscAvailable |-> oscAvailable]) >>
    IN /\ users' = u
       /\ nextSocket' = nextSocket + 1
       /\ anonymousUsers' = IF isOverlay THEN anonymousUsers
                            ELSE [i \in DOMAIN anonymousUsers \cup {s} |->
                                    IF i = s THEN userIP ELSE anonymousUsers[i]]
       /\ timers' = IF isOverlay THEN timers ELSE timers \cup {s}
       /\ outbox' = IF ~isOverlay
                    THEN state \o
                         << SocketEmit(s, "user-initial-name", userIP),
                            SocketEmit(s, "users-update", filteredUsers),
                            [to |-> DOMAIN u, ev |-> "user-joined",
                             data |-> [user |-> user.name,
                                       userCount |-> Len(filteredUsers)]],
                            SocketEmit(s, "chat-messages-update", chatMessages) >>
                    ELSE state \o << SocketEmit(s, "users-update", <<>>) >>
       /\ UNCHANGED <<decoderVars, decoderObs, startVars, sharedVars, forced>>

\* the client of socket s closes the connection: socket.on('disconnect')
Disconnect(s) ==
    /\ s \in DOMAIN users
    /\ LET r == DisconnectHandler(users, s)
       IN /\ users' = r.users
          /\ outbox' = r.out
    /\ UNCHANGED <<decoderVars, decoderObs, startVars, anonymousUsers, timers,
                   nextSocket, sharedVars, forced>>

\* AnonymityTimeout without the test of user.isAnonymous
AnonymityTimeout_Everyone(s) ==
    /\ s \in timers
    /\ timers' = timers \ {s}
    /\ LET expel == /\ s \in DOMAIN users
                    /\ ~users[s].isOverlay
           r == IF expel THEN DisconnectHandler(users, s)
                ELSE [users |-> users, out |-> <<>>]
       IN /\ users' = r.users
          /\ outbox' = r.out
          /\ forced' = IF expel THEN forced \cup {s} ELSE forced
    /\ anonymousUsers' = [i \in DOMAIN anonymousUsers \ {s} |-> anonymousUsers[i]]
    /\ UNCHANGED <<decoderVars, decoderObs, startVars, nextSocket, sharedVars>>

\* the callback of the setTimeout(..., 900000) that the connection of socket
\* s armed; socket.disconnect(true) runs the socket's 'disconnect' handler
AnonymityTimeout(s) ==
    /\ s \in timers
    /\ timers' = timers \ {s}
    /\ LET expel == /\ s \in DOMAIN users
                    /\ users[s].isAnonymous
                    /\ ~users[s].isOverlay
           r == IF expel THEN DisconnectHandler(users, s)
                ELSE [users |-> users, out |-> <<>>]
       IN /\ users' = r.users
          /\ outbox' = r.out
          /\ forced' = IF expel THEN forced \cup {s} ELSE forced
    /\ anonymousUsers' = [i \in DOMAIN anonymousUsers \ {s} |-> anonymousUsers[i]]
    /\ UNCHANGED <<decoderVars, decoderObs, startVars, nextSocket, sharedVars>>


\* ------------------------------------------------------- the OSC extractor
\* OscMessage without the comparison of the act with globalState.currentAct
OscMessage_EveryAct(address, value) ==
    /\ oscAvailable
    /\ IF address = ActiveCueAddress /\ value # <<>>
       THEN LET cueMatch == CueMatch(value)
            IN IF cueMatch # <<>> /\ cueMatch[1] # <<>>
               THEN LET cueName == Trim(cueMatch[1])
                    IN /\ currentLxCue' = cueName
                       /\ outbox' = <<IoEmit("lx-cue-update", cueName)>>
                       /\ UNCHANGED currentAct
               ELSE /\ outbox' = <<>>
                    /\ UNCHANGED <<currentLxCue, currentAct>>
       ELSE IF address = PendingCueAddress /\ value # <<>>
       THEN /\ outbox' = <<>>
            /\ UNCHANGED <<currentLxCue, currentAct>>
       ELSE IF StartsWith(address, ActPrefix)
       THEN LET act == value
            IN /\ UNCHANGED currentLxCue
               /\ IF act # <<>>
                  THEN /\ currentAct' = act
                       /\ outbox' = <<IoEmit("act-update", act)>>
                  ELSE /\ outbox' = <<>>
                       /\ UNCHANGED currentAct
       ELSE /\ outbox' = <<>>
            /\ UNCHANGED <<currentLxCue, currentAct>>
    /\ UNCHANGED <<decoderVars, decoderObs, startVars, sessionVars, notes, tags,
                   chatMessages, timeMode, nextId, forced>>

\* oscServer.on('message') for msg = [address, value]; value is a string
OscMessage(address, value) ==
    /\ oscAvailable
    /\ IF address = ActiveCueAddress /\ value # <<>>
       THEN LET cueMatch == CueMatch(value)
            IN IF cueMatch # <<>> /\ cueMatch[1] # <<>>
               THEN LET cueName == Trim(cueMatch[1])
                    IN /\ currentLxCue' = cueName
                       /\ outbox' = <<IoEmit("lx-cue-update", cueName)>>
                       /\ UNCHANGED currentAct
               ELSE /\ outbox' = <<>>
                    /\ UNCHANGED <<currentLxCue, currentAct>>
       ELSE IF address = PendingCueAddress /\ value # <<>>
       THEN /\ outbox' = <<>>
            /\ UNCHANGED <<currentLxCue, currentAct>>
       ELSE IF StartsWith(address, ActPrefix)
       THEN LET act == value
            IN /\ UNCHANGED currentLxCue
               /\ IF act # <<>> /\ act # currentAct
                  THEN /\ currentAct' = act
                       /\ outbox' = <<IoEmit("act-update", act)>>
                  ELSE /\ outbox' = <<>>
                       /\ UNCHANGED currentAct
       ELSE /\ outbox' = <<>>
            /\ UNCHANGED <<currentLxCue, currentAct>>
    /\ UNCHANGED <<decoderVars, decoderObs, startVars, sessionVars, notes, tags,
                   chatMessages, timeMode, nextId, forced>>

\* ------------------------------------------------------ the client events
\* what every client event leaves alone
ClientFrame == UNCHANGED <<decoderVars, decoderObs, startVars, anonymousUsers,
                           timers, nextSocket, forced>>

\* globalState.notes.find(n => n.id === noteId): the index of the note, or 0
FindNote(noteId) ==
    LET hits == {i \in DOMAIN notes : notes[i].id = noteId}
    IN IF hits = {} THEN 0 ELSE CHOOSE i \in hits : \A j \in hits : i <= j

\* note.comments.find(c => c.id === commentId): the index, or 0
FindComment(comments, commentId) ==
    LET hits == {i \in DOMAIN comments : comments[i].id = commentId}
    IN IF hits = {} THEN 0 ELSE CHOOSE i \in hits : \A j \in hits : i <= j

\* socket.on('note-update-tags')
NoteUpdateTags(s, data) ==
    /\ s \in DOMAIN users
    /\ LET n == FindNote(data.noteId)
       IN IF n # 0
          THEN /\ notes' = [notes EXCEPT ![n].tags = data.tags]
               /\ outbox' = <<IoEmit("notes-update", notes')>>
          ELSE /\ outbox' = <<>>
               /\ UNCHANGED notes
    /\ ClientFrame
    /\ UNCHANGED <<users, tags, chatMessages, timeMode, currentLxCue, currentAct, nextId>>

\* socket.on('create-tag'); tagData.id and tagData.color may be absent
CreateTag(s, tagData) ==
    /\ s \in DOMAIN users
    /\ LET generate == ~TruthyText(tagData.id)
           colors == IF TruthyText(tagData.color) THEN {tagData.color[1]}
                     ELSE RandomColors
       IN \E color \in colors :
            LET newTag == [id |-> IF generate THEN GenerateId(nextId) ELSE tagData.id[1],
                           name |-> tagData.name,
                           color |-> color]
                existingIndex == {i \in DOMAIN tags : tags[i].id = newTag.id}
            IN /\ nextId' = IF generate THEN nextId + 1 ELSE nextId
               /\ tags' = IF existingIndex # {}
                          THEN [tags EXCEPT ![CHOOSE i \in existingIndex :
                                                \A j \in existingIndex : i <= j] = newTag]
                          ELSE Append(tags, newTag)
    /\ outbox' = <<IoEmit("tags-update", tags')>>
    /\ ClientFrame
    /\ UNCHANGED <<users, notes, chatMessages, timeMode, currentLxCue, currentAct>>

\* socket.on('delete-tag')
DeleteTag(s, tagId) ==
    /\ s \in DOMAIN users
    /\ LET Keep(tag) == tag.id # tagId
       IN tags' = SelectSeq(tags, Keep)
    /\ outbox' = <<IoEmit("tags-update", tags')>>
    /\ ClientFrame
    /\ UNCHANGED <<users, notes, chatMessages, timeMode, currentLxCue, currentAct, nextId>>

\* socket.on('typing-start'); data.timecode and data.lxCue may be absent
TypingStart(s, data) ==
    /\ s \in DOMAIN users
    /\ IF users[s].isOverlay
       THEN /\ outbox' = <<>>
            /\ UNCHANGED users
       ELSE /\ users' = [users EXCEPT
                   ![s].isTyping = TRUE,
                   ![s].currentTimecode = IF data.timecode # <<>> THEN data.timecode
                                          ELSE <<timecode>>,
                   ![s].currentLxCue = IF Truthy(data.lxCue) THEN data.lxCue
                                       ELSE <<currentLxCue>>]
            /\ outbox' = <<IoEmit("users-update", FilteredUsers(users'))>>
    /\ ClientFrame
    /\ UNCHANGED sharedVars

\* socket.on('typing-stop')
TypingStop(s) ==
    /\ s \in DOMAIN users
    /\ IF users[s].isOverlay
       THEN /\ outbox' = <<>>
            /\ UNCHANGED users
       ELSE /\ users' = [users EXCEPT ![s].isTyping = FALSE,
                                      ![s].currentTimecode = <<>>,
                                      ![s].currentLxCue = <<>>]
            /\ outbox' = <<IoEmit("users-update", FilteredUsers(users'))>>
    /\ ClientFrame
    /\ UNCHANGED sharedVars

\* socket.on('time-mode-change')
TimeModeChange(s, newMode) ==
    /\ s \in DOMAIN users
    /\ IF ~users[s].isOverlay /\ (newMode = "midi" \/ newMode = "realtime")
       THEN /\ timeMode' = newMode
            /\ outbox' = <<IoEmit("time-mode-update", newMode)>>
       ELSE /\ outbox' = <<>>
            /\ UNCHANGED timeMode
    /\ ClientFrame
    /\ UNCHANGED <<users, notes, tags, chatMessages, currentLxCue, currentAct, nextId>>

\* LxCueChange without the test of oscServer
LxCueChange_Always(s, newCue) ==
    /\ s \in DOMAIN users
    /\ IF ~users[s].isOverlay
       THEN /\ currentLxCue' = newCue
            /\ outbox' = <<IoEmit("lx-cue-update", newCue)>>
       ELSE /\ outbox' = <<>>
            /\ UNCHANGED currentLxCue
    /\ ClientFrame
    /\ UNCHANGED <<users, notes, tags, chatMessages, timeMode, currentAct, nextId>>

\* socket.on('lx-cue-change')
LxCueChange(s, newCue) ==
    /\ s \in DOMAIN users
    /\ IF ~users[s].isOverlay /\ ~oscAvailable
       THEN /\ currentLxCue' = newCue
            /\ outbox' = <<IoEmit("lx-cue-update", newCue)>>
       ELSE /\ outbox' = <<>>
            /\ UNCHANGED currentLxCue
    /\ ClientFrame
    /\ UNCHANGED <<users, notes, tags, chatMessages, timeMode, currentAct, nextId>>


\* a slice that keeps the first n elements
SliceLast_First(seq, n) == SubSeq(seq, 1, n)

\* seq.slice(-n) for a sequence of more than n elements
SliceLast(seq, n) == SubSeq(seq, Len(seq) - n + 1, Len(seq))

\* the chat log keeps this many messages: slice(-100)
ChatLimit == 100

\* socket.on('note-submit'); data.timecode, data.lxCue, data.frameRate and
\* data.tags may be absent
NoteSubmit(s, data) ==
    /\ s \in DOMAIN users
    /\ IF users[s].isOverlay
       THEN /\ outbox' = <<>>
            /\ UNCHANGED <<notes, nextId>>
       ELSE LET note == [id |-> GenerateId(nextId),
                         user |-> users[s].name,
                         userId |-> users[s].id,
                         text |-> data.text,
                         timecode |-> IF data.timecode # <<>> THEN data.timecode[1]
                                      ELSE timecode,
                         lxCue |-> IF Truthy(data.lxCue) THEN data.lxCue[1]
                                   ELSE currentLxCue,
                         frameRate |-> IF data.frameRate # <<>> /\ data.frameRate[1] # 0
                                       THEN data.frameRate[1]
                                       ELSE timecode.frameRate,
                         tags |-> IF data.tags # <<>> THEN data.tags[1] ELSE <<>>,
                         act |-> currentAct,
                         comments |-> <<>>,
                         lastEditedBy |-> <<>>]
            IN /\ notes' = Append(notes, note)
               /\ nextId' = nextId + 1
               /\ outbox' = << IoEmit("note-added", note),
                               IoEmit("notes-update", notes') >>
    /\ ClientFrame
    /\ UNCHANGED <<users, tags, chatMessages, timeMode, currentLxCue, currentAct>>

\* socket.on('comment-submit')
CommentSubmit(s, data) ==
    /\ s \in DOMAIN users
    /\ LET n == FindNote(data.noteId)
       IN IF ~users[s].isOverlay /\ n # 0
          THEN LET comment == [id |-> GenerateId(nextId),
                               user |-> users[s].name,
                               userId |-> users[s].id,
                               text |-> data.text,
                               lastEditedBy |-> <<>>]
               IN /\ notes' = [notes EXCEPT ![n].comments = Append(@, comment)]
                  /\ nextId' = nextId + 1
                  /\ outbox' = <<IoEmit("notes-update", notes')>>
          ELSE /\ outbox' = <<>>
               /\ UNCHANGED <<notes, nextId>>
    /\ ClientFrame
    /\ UNCHANGED <<users, tags, chatMessages, timeMode, currentLxCue, currentAct>>

\* socket.on('chat-message')
ChatMessage(s, data) ==
    /\ s \in DOMAIN users
    /\ IF users[s].isOverlay
       THEN /\ outbox' = <<>>
            /\ UNCHANGED <<chatMessages, nextId>>
       ELSE LET chatMessage == [id |-> GenerateId(nextId),
                                user |-> users[s].name,
                                userId |-> users[s].id,
                                text |-> data.text]
                pushed == Append(chatMessages, chatMessage)
            IN /\ chatMessages' = IF Len(pushed) > ChatLimit
                                  THEN SliceLast(pushed, ChatLimit)
                                  ELSE pushed
               /\ nextId' = nextId + 1
               /\ outbox' = << IoEmit("chat-message-added", chatMessage),
                               IoEmit("chat-messages-update", chatMessages') >>
    /\ ClientFrame
    /\ UNCHANGED <<users, notes, tags, timeMode, currentLxCue, currentAct>>

\* socket.on('note-edit-text')
NoteEditText(s, data) ==
    /\ s \in DOMAIN users
    /\ LET n == FindNote(data.noteId)
       IN IF ~users[s].isOverlay /\ n # 0
          THEN /\ notes' = [notes EXCEPT ![n].text = data.newText,
                                         ![n].lastEditedBy = <<users[s].name>>]
               /\ outbox' = <<IoEmit("notes-update", notes')>>
          ELSE /\ outbox' = <<>>
               /\ UNCHANGED notes
    /\ ClientFrame
    /\ UNCHANGED <<users, tags, chatMessages, timeMode, currentLxCue, currentAct, nextId>>

\* socket.on('comment-edit')
CommentEdit(s, data) ==
    /\ s \in DOMAIN users
    /\ LET n == FindNote(data.noteId)
           c == IF n # 0 THEN FindComment(notes[n].comments, data.commentId) ELSE 0
       IN IF ~users[s].isOverlay /\ n # 0 /\ c # 0
          THEN /\ notes' = [notes EXCEPT
                     ![n].comments[c].text = data.newText,
                     ![n].comments[c].lastEditedBy = <<users[s].name>>]
               /\ outbox' = <<IoEmit("notes-update", notes')>>
          ELSE /\ outbox' = <<>>
               /\ UNCHANGED notes
    /\ ClientFrame
    /\ UNCHANGED <<users, tags, chatMessages, timeMode, currentLxCue, currentAct, nextId>>

\* socket.on('comment-delete')
CommentDelete(s, data) ==
    /\ s \in DOMAIN users
    /\ LET n == FindNote(data.noteId)
           Keep(c) == c.id # data.commentId
       IN IF ~users[s].isOverlay /\ n # 0
          THEN /\ notes' = [notes EXCEPT ![n].comments = SelectSeq(@, Keep)]
               /\ outbox' = <<IoEmit("notes-update", notes')>>
          ELSE /\ outbox' = <<>>
               /\ UNCHANGED notes
    /\ ClientFrame
    /\ UNCHANGED <<users, tags, chatMessages, timeMode, currentLxCue, currentAct, nextId>>

\* IsNameTaken without the toLowerCase on either side
IsNameTaken_CaseSensitive(s, newName) ==
    \E i \in DOMAIN users :
        /\ users[i].id # users[s].id
        /\ users[i].name = newName
        /\ ~users[i].isOverlay

\* the isNameTaken of socket.on('user-name-change')
IsNameTaken(s, newName) ==
    \E i \in DOMAIN users :
        /\ users[i].id # users[s].id
        /\ ToLowerCase(users[i].name) = ToLowerCase(newName)
        /\ ~users[i].isOverlay

\* RenameAuthor without the test of comment.userId
RenameAuthor_EveryComment(ns, s, newName) ==
    [n \in DOMAIN ns |->
        [ns[n] EXCEPT
            !.user = IF ns[n].userId = s THEN newName ELSE @,
            !.comments = [c \in DOMAIN @ |-> [@[c] EXCEPT !.user = newName]]]]

\* the forEach that writes newName into the notes and comments of socket s
RenameAuthor(ns, s, newName) ==
    [n \in DOMAIN ns |->
        [ns[n] EXCEPT
            !.user = IF ns[n].userId = s THEN newName ELSE @,
            !.comments = [c \in DOMAIN @ |->
                             IF @[c].userId = s
                             THEN [@[c] EXCEPT !.user = newName]
                             ELSE @[c]]]]

\* socket.on('user-name-change'); newName is a string
UserNameChange(s, newName) ==
    /\ s \in DOMAIN users
    /\ IF users[s].isOverlay
       THEN /\ outbox' = <<>>
            /\ UNCHANGED <<users, anonymousUsers, notes>>
       ELSE IF IsNameTaken(s, newName)
       THEN /\ outbox' = <<SocketEmit(s, "name-change-error", newName)>>
            /\ UNCHANGED <<users, anonymousUsers, notes>>
       ELSE LET oldName == users[s].name
            IN /\ users' = [users EXCEPT ![s].name = newName,
                                         ![s].isAnonymous = FALSE]
               /\ anonymousUsers' = [i \in DOMAIN anonymousUsers \ {s} |->
                                        anonymousUsers[i]]
               /\ notes' = RenameAuthor(notes, users[s].id, newName)
               /\ outbox' = << IoEmit("users-update", FilteredUsers(users')),
                               IoEmit("notes-update", notes'),
                               SocketEmit(s, "name-change-success",
                                          [from |-> oldName, to |-> newName]) >>
    /\ UNCHANGED <<decoderVars, decoderObs, startVars, timers, nextSocket, forced,
                   tags, chatMessages, timeMode, currentLxCue, currentAct, nextId>>

\* socket.on('export-request'); the export text itself is not modelled
ExportRequest(s, format) ==
    /\ s \in DOMAIN users
    /\ outbox' = IF users[s].isOverlay THEN <<>>
                 ELSE <<SocketEmit(s, "export-data", format)>>
    /\ ClientFrame
    /\ UNCHANGED <<users, sharedVars>>


\* ParseCompleteMTC without the assignment to lastFullTimecode
ParseCompleteMTC_Forgets(q) ==
    LET newTimecode == NewTimecode(q)
    IN IF TimecodeChanged(lastFullTimecode, newTimecode)
       THEN [timecode |-> newTimecode, last |-> lastFullTimecode,
             out |-> <<IoEmit("timecode-update", newTimecode)>>]
       ELSE [timecode |-> timecode, last |-> lastFullTimecode, out |-> <<>>]

\* parseCompleteMTC(): the timecode, the last full timecode and the emissions
\* it leaves, given the buffer q
ParseCompleteMTC(q) ==
    LET newTimecode == NewTimecode(q)
    IN IF TimecodeChanged(lastFullTimecode, newTimecode)
       THEN [timecode |-> newTimecode, last |-> <<newTimecode>>,
             out |-> <<IoEmit("timecode-update", newTimecode)>>]
       ELSE [timecode |-> timecode, last |-> lastFullTimecode, out |-> <<>>]

\* The run of the decoder as it is observed.  tcUpdates counts the
\* 'timecode-update' broadcasts.  cycle1 follows the fragments from the start
\* while their types are pairwise distinct: the types delivered, the payload
\* of the last broadcast (<<>> if none), and the buffer as it was when the
\* type-7 fragment was handled (<<>> before that).
ObserveCycle1(messageType, q, out) ==
    IF cycle1 # <<>> /\ messageType \notin cycle1[1].types
    THEN <<[types |-> cycle1[1].types \cup {messageType},
            sent |-> IF out # <<>> THEN <<out[1].data>> ELSE cycle1[1].sent,
            buf7 |-> IF messageType = 7 THEN <<q>> ELSE cycle1[1].buf7]>>
    ELSE <<>>

\* redo starts when a type-7 fragment is broadcast, and follows the
\* fragments after it while they deliver the types 0, 1, ... 7 in this order,
\* each with the nibble its slot holds already: the number of types
\* re-delivered, the value of tcUpdates and of the timecode at the start, and
\* whether the broadcast fragment completed a first cycle of all eight types
ObserveRedo(messageType, value, out, tc) ==
    IF /\ redo # <<>>
       /\ messageType = redo[1].count
       /\ value = quarterFrameData[messageType]
    THEN <<[redo[1] EXCEPT !.count = @ + 1]>>
    ELSE IF messageType = 7 /\ out # <<>>
    THEN <<[count |-> 0, updates |-> tcUpdates + 1, tc |-> tc,
            full |-> cycle1 # <<>> /\ cycle1[1].types = 0..6]>>
    ELSE <<>>

\* ParseEasyMIDIMTC with a buffer that is cleared once the type-7 fragment
\* has been recombined
ParseEasyMIDIMTC_Clears(messageType, value) ==
    LET q == [quarterFrameData EXCEPT ![messageType] = value]
        r == IF messageType = 7 THEN ParseCompleteMTC(q)
             ELSE [timecode |-> timecode, last |-> lastFullTimecode, out |-> <<>>]
    IN /\ quarterFrameData' = IF messageType = 7 THEN [i \in 0..7 |-> 0] ELSE q
       /\ mtcMessagesReceived' = mtcMessagesReceived + 1
       /\ lastQuarterFrame' = messageType
       /\ timecode' = r.timecode
       /\ lastFullTimecode' = r.last
       /\ outbox' = r.out
       /\ tcUpdates' = tcUpdates + Len(r.out)
       /\ cycle1' = ObserveCycle1(messageType, q, r.out)
       /\ redo' = ObserveRedo(messageType, value, r.out, r.timecode)
       /\ lastNibble' = [lastNibble EXCEPT ![messageType] = value]

\* parseEasyMIDIMTC(messageType, value); lastNibble observes the fragments:
\* for each type, the nibble of the fragment of that type that was received
\* last, 0 if none was
ParseEasyMIDIMTC(messageType, value) ==
    LET q == [quarterFrameData EXCEPT ![messageType] = value]
        r == IF messageType = 7 THEN ParseCompleteMTC(q)
             ELSE [timecode |-> timecode, last |-> lastFullTimecode, out |-> <<>>]
    IN /\ quarterFrameData' = q
       /\ mtcMessagesReceived' = mtcMessagesReceived + 1
       /\ lastQuarterFrame' = messageType
       /\ timecode' = r.timecode
       /\ lastFullTimecode' = r.last
       /\ outbox' = r.out
       /\ tcUpdates' = tcUpdates + Len(r.out)
       /\ cycle1' = ObserveCycle1(messageType, q, r.out)
       /\ redo' = ObserveRedo(messageType, value, r.out, r.timecode)
       /\ lastNibble' = [lastNibble EXCEPT ![messageType] = value]

\* the MIDI port delivers a fragment while the bound allows it; a first
\* cycle that visits every type once, and the repetition of such a cycle, are
\* delivered in full
MayDeliver(messageType, value) ==
    \/ mtcMessagesReceived < MaxFragments
    \/ /\ cycle1 # <<>>
       /\ messageType \notin cycle1[1].types
    \/ /\ redo # <<>>
       /\ redo[1].full
       /\ messageType = redo[1].count
       /\ value = quarterFrameData[messageType]

\* midiInput.on('message') with a structured message
\* {_type: 'mtc', type: messageType, value: value}
MidiMtcMessage(messageType, value) ==
    /\ midiAvailable
    /\ MayDeliver(messageType, value)
    /\ ParseEasyMIDIMTC(messageType, value)
    /\ UNCHANGED <<startVars, sessionVars, sharedVars, forced>>

\* midiInput.on('message') with a raw message {bytes: [status, data1]}
MidiByteMessage(status, data1) ==
    /\ midiAvailable
    /\ IF status = 241
       THEN LET messageType == ShiftRight(data1, 4)
                value == BitAnd(data1, 15)
            IN /\ MayDeliver(messageType, value)
               /\ ParseEasyMIDIMTC(messageType, value)
       ELSE /\ outbox' = <<>>
            /\ UNCHANGED <<decoderVars, decoderObs>>
    /\ UNCHANGED <<startVars, sessionVars, sharedVars, forced>>

\* ------------------------------------------------------------- the inputs
\* the types and nibbles of the quarter-frame messages
FragmentTypes == 0..7
\* the raw MIDI messages [status, data1]: the quarter frames (status 0xF1)
\* of these types and nibbles, and a note-on
ByteMessages == { <<241, BitOr(ShiftLeft(t, 4), v)>> : t \in FragmentTypes,
                                                      v \in NibbleValues }
                \cup { <<144, 60>> }

\* the addresses the clients connect from, and their referer headers
ClientIPs == { <<":", ":", "1">>, <<":", ":", "f", ":", "1">> }
Referers == { <<>>, <<"http://host/index.html">>, <<"http://host/overlay.html">> }
\* the names the clients ask for
NewNames == { <<"a">>, <<"A">>, <<"1">> }

\* the OSC messages the console sends
OscAddresses == { ActiveCueAddress, PendingCueAddress, ActPrefix \o <<"a">>,
                  <<"/", "x">> }
OscValues == { <<>>, <<"7">>, <<"1", "/", "5">>, <<"2", "/", " ", "5", " ">> }

\* the payloads of the client events
SuppliedTimecode == [hours |-> 1, minutes |-> 2, seconds |-> 3, frames |-> 4,
                     frameRate |-> 2500, source |-> "midi"]
SuppliedCue == <<"9">>
TypingData == { [timecode |-> <<>>, lxCue |-> <<>>],
                [timecode |-> <<SuppliedTimecode>>, lxCue |-> <<SuppliedCue>>] }
NoteData == { [text |-> "note", timecode |-> <<>>, lxCue |-> <<>>,
               frameRate |-> <<>>, tags |-> <<>>],
              [text |-> "note", timecode |-> <<SuppliedTimecode>>,
               lxCue |-> <<SuppliedCue>>, frameRate |-> <<2500>>,
               tags |-> << <<"sound">> >>] }
\* the ids the client events refer to: the first two generated ids and one
\* that nothing has
RefIds == { GenerateId(0), GenerateId(1), "missing" }
TagData == { [id |-> <<>>, name |-> "Tag", color |-> <<"#000000">>],
             [id |-> <<"sound">>, name |-> "Tag", color |-> <<>>] }
TagIds == { "sound", "missing" }
TimeModes == { "midi", "realtime", "other" }
ExportFormats == { "json", "csv" }

\* ------------------------------------------------------ the specifications
\* the state after the module body of server.js has run; the MIDI port and
\* the OSC server may each be missing
Init ==
    /\ quarterFrameData = [i \in 0..7 |-> 0]
    /\ lastQuarterFrame = -1
    /\ lastFullTimecode = <<>>
    /\ mtcMessagesReceived = 0
    /\ timecode = InitialTimecode
    /\ outbox = <<>>
    /\ tcUpdates = 0
    /\ cycle1 = <<[types |-> {}, sent |-> <<>>, buf7 |-> <<>>]>>
    /\ redo = <<>>
    /\ lastNibble = [i \in 0..7 |-> 0]
    /\ midiAvailable \in BOOLEAN
    /\ oscAvailable \in BOOLEAN
    /\ users = <<>>
    /\ anonymousUsers = <<>>
    /\ timers = {}
    /\ nextSocket = 1
    /\ notes = <<>>
    /\ tags = DefaultTags
    /\ chatMessages = <<>>
    /\ timeMode = IF midiAvailable THEN "midi" ELSE "realtime"
    /\ currentLxCue = InitialLxCue
    /\ currentAct = InitialAct
    /\ nextId = 0
    /\ forced = {}
    /\ events = 0
    /\ lastOsc = <<>>
    /\ crashed = FALSE

\* a client event of socket s that is meant to change the shared state or
\* the registry
MutatingEvent(s) ==
    \/ \E noteId \in RefIds :
          NoteUpdateTags(s, [noteId |-> noteId, tags |-> <<"lighting">>])
    \/ \E tagData \in TagData : CreateTag(s, tagData)
    \/ \E tagId \in TagIds : DeleteTag(s, tagId)
    \/ \E data \in TypingData : TypingStart(s, data)
    \/ TypingStop(s)
    \/ \E newMode \in TimeModes : TimeModeChange(s, newMode)
    \/ LxCueChange(s, SuppliedCue)
    \/ \E data \in NoteData : NoteSubmit(s, data)
    \/ \E noteId \in RefIds :
          CommentSubmit(s, [noteId |-> noteId, text |-> "comment"])
    \/ ChatMessage(s, [text |-> "chat"])
    \/ \E noteId \in RefIds :
          NoteEditText(s, [noteId |-> noteId, newText |-> "edited"])
    \/ \E noteId \in RefIds, commentId \in RefIds :
          CommentEdit(s, [noteId |-> noteId, commentId |-> commentId,
                          newText |-> "edited"])
    \/ \E noteId \in RefIds, commentId \in RefIds :
          CommentDelete(s, [noteId |-> noteId, commentId |-> commentId])
    \/ \E newName \in NewNames : UserNameChange(s, newName)

\* one event of any kind
Handle ==
    \/ \E clientIP \in ClientIPs, referer \in Referers :
          nextSocket <= MaxSockets /\ Connect(clientIP, referer)
    \/ \E s \in DOMAIN users : Disconnect(s)
    \/ \E s \in timers : AnonymityTimeout(s)
    \/ \E address \in OscAddresses, value \in OscValues : OscMessage(address, value)
    \/ \E value \in NibbleValues : MidiMtcMessage(7, value)
    \/ \E s \in DOMAIN users : MutatingEvent(s)
    \/ \E s \in DOMAIN users, format \in ExportFormats : ExportRequest(s, format)

Next ==
    /\ events < MaxEvents
    /\ events' = events + 1
    /\ UNCHANGED <<lastOsc, crashed>>
    /\ Handle

Spec == Init /\ [][Next]_vars

\* the registry and the authorship of notes and comments: the clients
\* connect, disconnect, change their names and write notes and comments, and
\* the anonymity timers fire
InitRegistry == Init /\ midiAvailable /\ oscAvailable

NextRegistry ==
    /\ events < MaxRegistryEvents
    /\ events' = events + 1
    /\ UNCHANGED <<lastOsc, crashed>>
    /\ \/ \E clientIP \in ClientIPs, referer \in Referers :
             nextSocket <= MaxSockets /\ Connect(clientIP, referer)
       \/ \E s \in DOMAIN users : Disconnect(s)
       \/ \E s \in timers : AnonymityTimeout(s)
       \/ \E s \in DOMAIN users, newName \in NewNames : UserNameChange(s, newName)
       \/ \E s \in DOMAIN users, data \in NoteData : NoteSubmit(s, data)
       \/ \E s \in DOMAIN users, noteId \in RefIds :
             CommentSubmit(s, [noteId |-> noteId, text |-> "comment"])

SpecRegistry == InitRegistry /\ [][NextRegistry]_vars

\* the decoder alone: the MIDI port is there and nothing else happens
InitMTC == Init /\ midiAvailable /\ ~oscAvailable

NextMTC ==
    /\ UNCHANGED <<events, lastOsc, crashed>>
    /\ \/ \E messageType \in FragmentTypes, value \in NibbleValues :
             MidiMtcMessage(messageType, value)
       \/ \E bytes \in ByteMessages : MidiByteMessage(bytes[1], bytes[2])

SpecMTC == InitMTC /\ [][NextMTC]_vars

\* the chat log: sessions connect and chat.  The sessions take turns freely
\* for the first ChatBurstFrom messages and again from the message that
\* fills the log; the messages in between are a burst of the participant
\* that connected first, during which nothing else happens.
ChatBurstFrom == 2
ChatBurst == ChatBurstFrom <= nextId /\ nextId < ChatLimit - 1

MayChat(s) ==
    ChatBurst => /\ ~users[s].isOverlay
                 /\ \A i \in DOMAIN users : ~users[i].isOverlay => s <= i

InitChat == Init /\ midiAvailable /\ oscAvailable

NextChat ==
    /\ UNCHANGED <<events, lastOsc, crashed>>
    /\ \/ \E clientIP \in ClientIPs, referer \in Referers :
             /\ nextSocket <= MaxSockets
             /\ ~ChatBurst
             /\ Connect(clientIP, referer)
       \/ \E s \in DOMAIN users :
             /\ nextId < MaxChat
             /\ MayChat(s)
             /\ ChatMessage(s, [text |-> "chat"])

SpecChat == InitChat /\ [][NextChat]_vars

\* the cue and the act: the OSC server is attached, the console sends OSC
\* messages, sessions connect and override the cue.  lastOsc is the OSC
\* message that the handler that ran last has handled, <<>> when the last
\* event was not an OSC message.
InitOsc == Init /\ midiAvailable /\ oscAvailable

NextOsc ==
    /\ events < MaxOscEvents
    /\ events' = events + 1
    /\ UNCHANGED crashed
    /\ \/ \E clientIP \in ClientIPs, referer \in Referers :
             /\ nextSocket <= MaxSockets
             /\ Connect(clientIP, referer)
             /\ lastOsc' = <<>>
       \/ \E address \in OscAddresses, value \in OscValues :
             /\ OscMessage(address, value)
             /\ lastOsc' = <<[address |-> address, value |-> value]>>
       \/ \E s \in DOMAIN users :
             /\ LxCueChange(s, SuppliedCue)
             /\ lastOsc' = <<>>

SpecOsc == InitOsc /\ [][NextOsc]_vars

\* the cue extractor alone: the console sends, on the active-cue address,
\* every text of up to MaxPayload characters that is made of slashes,
\* spaces and the digit 5
CueAlphabet == {"/", " ", "5"}
CuePayloads == UNION {[1..k -> CueAlphabet] : k \in 0..MaxPayload}

InitCue == Init /\ midiAvailable /\ oscAvailable

NextCue ==
    /\ events < MaxCueEvents
    /\ events' = events + 1
    /\ UNCHANGED crashed
    /\ \E value \in CuePayloads :
          /\ OscMessage(ActiveCueAddress, value)
          /\ lastOsc' = <<[address |-> ActiveCueAddress, value |-> value]>>

SpecCue == InitCue /\ [][NextCue]_vars

\* ------------------------------------------------- payloads of a wrong shape
\* An exception that a handler throws is caught nowhere in server.js, so it
\* reaches process.on('uncaughtException'), which writes a backup and ends
\* the process: crashed becomes TRUE and nothing happens any more.

\* the JavaScript value undefined in a slot that is kept as a string
Undefined == "undefined"

\* what a handler that throws before it has assigned anything leaves alone
ThrowFrame == UNCHANGED <<decoderVars, decoderObs, startVars, sessionVars,
                          sharedVars, forced>>

\* socket.on('note-submit') without a data object: a participant's event
\* throws at data.timecode; an overlay's event has returned before
NoteSubmitNoData(s) ==
    /\ s \in DOMAIN users
    /\ crashed' = ~users[s].isOverlay
    /\ outbox' = <<>>
    /\ ThrowFrame

\* socket.on('note-submit') with the data object {}: every field is absent
NoteSubmitNoText(s) ==
    /\ NoteSubmit(s, [text |-> Undefined, timecode |-> <<>>, lxCue |-> <<>>,
                      frameRate |-> <<>>, tags |-> <<>>])
    /\ UNCHANGED crashed

\* socket.on('user-name-change') with a number as newName, while another
\* session is connected: the callback of some() reaches that session and
\* throws at newName.toLowerCase(); an overlay's event has returned before.
\* (Without another session the number becomes the display name; that case
\* is left out.)
UserNameChangeNonString(s) ==
    /\ s \in DOMAIN users
    /\ \E i \in DOMAIN users : users[i].id # users[s].id
    /\ crashed' = ~users[s].isOverlay
    /\ outbox' = <<>>
    /\ ThrowFrame

\* oscServer.on('message') on a cue address with a number other than 0 as
\* payload: value.match is not a function, the listener throws.  The throw
\* passes through the emit of the node-osc server, which is not part of
\* server.js: it either lets it through to the uncaughtException handler or
\* turns it into an 'error' event, which server.js logs.
OscCueNonString(address) ==
    /\ oscAvailable
    /\ address \in {ActiveCueAddress, PendingCueAddress}
    /\ crashed' \in BOOLEAN
    /\ outbox' = <<>>
    /\ ThrowFrame

\* a session or the console sends a payload of a wrong shape
Malformed ==
    \/ \E s \in DOMAIN users : NoteSubmitNoData(s)
    \/ \E s \in DOMAIN users : NoteSubmitNoText(s)
    \/ \E s \in DOMAIN users : UserNameChangeNonString(s)
    \/ \E address \in OscAddresses : OscCueNonString(address)

InitBoundary == Init /\ midiAvailable /\ oscAvailable

NextBoundary ==
    /\ ~crashed
    /\ events < MaxBoundaryEvents
    /\ events' = events + 1
    /\ UNCHANGED lastOsc
    /\ \/ \E clientIP \in ClientIPs, referer \in Referers :
             /\ nextSocket <= MaxSockets
             /\ Connect(clientIP, referer)
             /\ UNCHANGED crashed
       \/ \E s \in DOMAIN users, data \in NoteData :
             NoteSubmit(s, data) /\ UNCHANGED crashed
       \/ \E s \in DOMAIN users, newName \in NewNames :
             UserNameChange(s, newName) /\ UNCHANGED crashed
       \/ Malformed

SpecBoundary == InitBoundary /\ [][NextBoundary]_vars

\* ------------------------------------------------------------- the claims
\* The recombination of eight nibbles n[0] .. n[7] as section 4.1 of the
\* specification states it, in arithmetic: the frame rate is that of the
\* table, in hundredths.
Recombined(n) ==
    LET combined == n[7] * 16 + n[6]
        code == (combined \div 32) % 4
    IN [hours |-> combined % 32,
        minutes |-> n[5] * 16 + n[4],
        seconds |-> n[3] * 16 + n[2],
        frames |-> n[1] * 16 + n[0],
        frameRate |-> CASE code = 0 -> 2400 [] code = 1 -> 2500
                        [] code = 2 -> 2997 [] code = 3 -> 3000]

\* the timecode tc carries the fields of the recombination r
CarriesFields(tc, r) ==
    /\ tc.hours = r.hours
    /\ tc.minutes = r.minutes
    /\ tc.seconds = r.seconds
    /\ tc.frames = r.frames
    /\ tc.frameRate = r.frameRate

\* hours, minutes, seconds or frames of tc differ from those of r
FieldsDiffer(tc, r) ==
    \/ tc.hours # r.hours
    \/ tc.minutes # r.minutes
    \/ tc.seconds # r.seconds
    \/ tc.frames # r.frames

\* the first eight fragments were the types 0..7, each once
FirstCycleComplete == cycle1 # <<>> /\ cycle1[1].types = 0..7

\* C1 as the claim states it: after a permutation of the eight types from the
\* start, exactly one timecode-update was broadcast, and it carries the
\* recombination of the eight delivered nibbles, which are the nibbles the
\* buffer holds.
C1_AsClaimed ==
    FirstCycleComplete =>
        /\ tcUpdates = 1
        /\ cycle1[1].sent # <<>>
        /\ CarriesFields(cycle1[1].sent[1], Recombined(quarterFrameData))

\* C1 as amended: after a permutation of the eight types from the start,
\* exactly one timecode-update was broadcast, and it was broadcast by the
\* type-7 fragment; it carries the recombination of the buffer as it was
\* then, in which the slot of a type delivered by then holds the delivered
\* nibble and every other slot holds 0; when type 7 comes last this is the
\* recombination of all eight delivered nibbles.
C1_Permutation ==
    /\ (cycle1 # <<>> /\ 7 \notin cycle1[1].types) => tcUpdates = 0
    /\ (cycle1 # <<>> /\ lastQuarterFrame = 7) =>
          /\ cycle1[1].buf7 = <<quarterFrameData>>
          /\ \A i \in (0..7) \ cycle1[1].types : quarterFrameData[i] = 0
    /\ FirstCycleComplete =>
          /\ tcUpdates = 1
          /\ cycle1[1].sent # <<>>
          /\ cycle1[1].buf7 # <<>>
          /\ CarriesFields(cycle1[1].sent[1], Recombined(cycle1[1].buf7[1]))
          /\ \A i \in 0..7 : cycle1[1].buf7[1][i] \in {0, quarterFrameData[i]}
          /\ lastQuarterFrame = 7 =>
                CarriesFields(cycle1[1].sent[1], Recombined(quarterFrameData))

\* C1, witness: a permutation is complete in which type 7 did not come last,
\* and one in which it did, with nibbles that are not 0
C1_Witness ==
    /\ FirstCycleComplete
    /\ lastQuarterFrame # 7
    /\ quarterFrameData[lastQuarterFrame] # 0
    /\ quarterFrameData[7] # 0
    /\ cycle1[1].buf7[1] # quarterFrameData

\* C2: while a cycle that was decoded and broadcast is delivered again,
\* fragment by fragment with the same nibbles, no further timecode-update is
\* broadcast and the canonical timecode stays what it was.
C2_Redelivery ==
    redo # <<>> => (tcUpdates = redo[1].updates /\ timecode = redo[1].tc)

\* C2, witness: a first cycle of the types 0..7 with type 7 last was
\* broadcast and all eight of its fragments were delivered a second time
C2_Witness ==
    /\ redo # <<>>
    /\ redo[1].full
    /\ redo[1].count = 8
    /\ mtcMessagesReceived = 16
    /\ quarterFrameData[1] # 0
    /\ quarterFrameData[7] # 0

\* a step replaced the canonical timecode or broadcast a timecode-update
TimecodeReplaced == timecode' # timecode \/ tcUpdates' # tcUpdates

\* C3 as the claim states it: the canonical timecode is replaced or
\* broadcast only by a fragment of type 7 whose recombined hours, minutes,
\* seconds or frames differ from the timecode emitted last, which is the
\* canonical timecode.
C3_AsClaimed ==
    [][TimecodeReplaced =>
          /\ lastQuarterFrame' = 7
          /\ mtcMessagesReceived' = mtcMessagesReceived + 1
          /\ FieldsDiffer(timecode, Recombined(quarterFrameData'))]_vars

\* C3 as amended: the canonical timecode is replaced or broadcast only by a
\* fragment of type 7, and only when the decoder has not broadcast a timecode
\* before or the recombined hours, minutes, seconds or frames differ from the
\* timecode it broadcast last; the replacement is the recombination.
C3_OnlyOnChange ==
    [][TimecodeReplaced =>
          /\ lastQuarterFrame' = 7
          /\ mtcMessagesReceived' = mtcMessagesReceived + 1
          /\ \/ lastFullTimecode = <<>>
             \/ FieldsDiffer(lastFullTimecode[1], Recombined(quarterFrameData'))
          /\ CarriesFields(timecode', Recombined(quarterFrameData'))]_vars

\* C3, witness: a second timecode-update was broadcast, by a type-7 fragment
\* that found a last full timecode to compare with
C3_Witness ==
    /\ tcUpdates = 2
    /\ lastQuarterFrame = 7
    /\ EmissionsOf(outbox, "timecode-update") # {}

\* the label the active-cue handler extracts from value, <<>> if none
ExtractedLabel(value) ==
    IF value # <<>> /\ CueMatch(value) # <<>> THEN <<Trim(CueMatch(value)[1])>>
    ELSE <<>>

\* C4 as the claim states it: when the handler that ran last broadcast the
\* cue extracted from an active-cue message to the connected clients, an
\* active-cue message with the same extracted label broadcasts no second
\* lx-cue-update.
C4_AsClaimed ==
    [][\A value \in OscValues :
          ( /\ DOMAIN users # {}
            /\ outbox = <<IoEmit("lx-cue-update", currentLxCue)>>
            /\ ExtractedLabel(value) = <<currentLxCue>>
            /\ OscMessage(ActiveCueAddress, value) )
          => EmissionsOf(outbox', "lx-cue-update") = {}]_vars

\* C5 as the claim states it: a mutating client event of an overlay session
\* leaves the shared production state and every session record as they are
\* and emits nothing.
C5_AsClaimed ==
    [][\A s \in DOMAIN users :
          (users[s].isOverlay /\ MutatingEvent(s))
          => /\ UNCHANGED <<notes, tags, chatMessages, timeMode, currentLxCue,
                            currentAct, timecode, users>>
             /\ outbox' = <<>>]_vars

\* an emission that tells of the roster or of the chat
RosterOrChat(e) ==
    \/ e.ev \in {"user-joined", "user-left", "chat-message-added",
                 "chat-messages-update"}
    \/ e.ev = "users-update" /\ e.data # <<>>

\* C6 as the claim states it: no emission of the roster or of the chat goes
\* to a connected overlay session.
C6_AsClaimed ==
    \A i \in DOMAIN outbox :
        RosterOrChat(outbox[i]) =>
            \A s \in outbox[i].to \cap DOMAIN users : ~users[s].isOverlay

\* the name is held, whatever the case of its letters, by a non-overlay
\* session other than s
HeldByAnother(s, name) ==
    \E i \in DOMAIN users \ {s} :
        ~users[i].isOverlay /\ ToLowerCase(users[i].name) = ToLowerCase(name)

\* C7: a participant that asks for a name another non-overlay session holds,
\* in whatever case, gets a name-change-error sent to it alone; nothing is
\* broadcast, and the registry (names, isAnonymous) and the notes and
\* comments stay as they are.
C7_RenameCollision ==
    [][\A s \in DOMAIN users, newName \in NewNames :
          ( /\ ~users[s].isOverlay
            /\ HeldByAnother(s, newName)
            /\ UserNameChange(s, newName) )
          => /\ Len(outbox') = 1
             /\ outbox'[1].ev = "name-change-error"
             /\ outbox'[1].to = {s}
             /\ UNCHANGED <<users, notes, anonymousUsers>>]_vars

\* C7, witness: a rename was refused for a name that another participant
\* holds in a different case, while notes exist
C7_Witness ==
    /\ Len(outbox) = 1
    /\ outbox[1].ev = "name-change-error"
    /\ notes # <<>>
    /\ \E s \in outbox[1].to, i \in DOMAIN users :
          /\ i # s
          /\ users[s].isAnonymous
          /\ users[i].name # outbox[1].data
          /\ ToLowerCase(users[i].name) = ToLowerCase(outbox[1].data)

\* C8: a participant that asks for a name no other non-overlay session holds
\* gets it: its name is the new name, it is not anonymous any more, every
\* note and comment it wrote carries the new name as author, and the author
\* of every other note and comment is what it was.
C8_RenameSuccess ==
    [][\A s \in DOMAIN users, newName \in NewNames :
          ( /\ ~users[s].isOverlay
            /\ ~HeldByAnother(s, newName)
            /\ UserNameChange(s, newName) )
          => /\ users'[s].name = newName
             /\ ~users'[s].isAnonymous
             /\ Len(notes') = Len(notes)
             /\ \A n \in DOMAIN notes :
                   /\ notes'[n].userId = notes[n].userId
                   /\ notes'[n].user = IF notes[n].userId = s THEN newName
                                       ELSE notes[n].user
                   /\ Len(notes'[n].comments) = Len(notes[n].comments)
                   /\ \A c \in DOMAIN notes[n].comments :
                         /\ notes'[n].comments[c].userId = notes[n].comments[c].userId
                         /\ notes'[n].comments[c].user =
                               IF notes[n].comments[c].userId = s THEN newName
                               ELSE notes[n].comments[c].user]_vars

\* C8, witness: a rename succeeded for a session that wrote a note which
\* carries a comment of another session whose name is a different one
C8_Witness ==
    /\ Len(outbox) = 3
    /\ outbox[3].ev = "name-change-success"
    /\ \E s \in outbox[3].to :
          \E n \in DOMAIN notes :
             \E c \in DOMAIN notes[n].comments :
                /\ notes[n].userId = s
                /\ notes[n].user = users[s].name
                /\ notes[n].user # outbox[3].data.from
                /\ notes[n].comments[c].userId # s
                /\ notes[n].comments[c].user # users[s].name

\* C9 as the claim states it: after a name-change event is handled, the
\* names of the connected non-overlay sessions are pairwise distinct,
\* whatever the case of their letters.
C9_AsClaimed ==
    [][(\E s \in DOMAIN users, newName \in NewNames : UserNameChange(s, newName))
          => \A i, j \in DOMAIN users' :
                (i # j /\ ~users'[i].isOverlay /\ ~users'[j].isOverlay)
                => ToLowerCase(users'[i].name) # ToLowerCase(users'[j].name)]_vars

\* C10: the callback of the anonymity timer of a connected participant that
\* is still anonymous disconnects it and removes it from the registry; the
\* server disconnects a socket by force only in the callback of that
\* socket's own timer, so never while the timer is pending, and only a
\* participant that is anonymous then; a session that has got a name stays
\* named, so that no callback disconnects it; an overlay has no timer.
C10_AnonymityExpiry ==
    [][/\ \A s \in DOMAIN users :
             /\ (AnonymityTimeout(s) /\ users[s].isAnonymous /\ ~users[s].isOverlay)
                   => (s \notin DOMAIN users' /\ s \in forced')
             /\ (AnonymityTimeout(s) /\ ~users[s].isAnonymous)
                   => (s \in DOMAIN users' /\ s \notin forced')
             /\ (~users[s].isAnonymous /\ s \in DOMAIN users')
                   => ~users'[s].isAnonymous
             /\ users[s].isOverlay => (s \notin timers /\ s \notin forced')
       /\ \A s \in forced' \ forced :
             /\ s \in timers /\ s \notin timers'
             /\ s \in DOMAIN users /\ s \notin DOMAIN users'
             /\ users[s].isAnonymous /\ ~users[s].isOverlay
       /\ \A s \in DOMAIN users \ DOMAIN users' :
             s \in forced' \/ Disconnect(s)]_vars

\* C10, witness: a participant was disconnected by force while another one,
\* which has got a name and whose timer has fired too, is still connected
C10_Witness ==
    /\ forced # {}
    /\ \E s \in DOMAIN users :
          ~users[s].isOverlay /\ ~users[s].isAnonymous /\ s \notin timers

\* C11 as the claim states it: a timer is pending only for a connected
\* participant that is still anonymous; the rename and the disconnection of
\* a session cancel its timer.
C11_AsClaimed ==
    \A s \in timers :
        s \in DOMAIN users /\ ~users[s].isOverlay /\ users[s].isAnonymous

\* C12: after n chat messages of participants the chat log holds the last
\* min(n, 100) of them in the order of their submission (in SpecChat nextId
\* is n, and the k-th message has the id GenerateId(k - 1)), so that its
\* length never exceeds 100 and 105 messages leave the 6th to the 105th; a
\* message that stays in the log stays as it was submitted.
C12_SlidingWindow ==
    /\ [](LET n == nextId
              len == IF n < 100 THEN n ELSE 100
          IN /\ Len(chatMessages) = len
             /\ \A i \in 1..len : chatMessages[i].id = GenerateId(n - len + i - 1))
    /\ [][\A s \in DOMAIN users :
             (~users[s].isOverlay /\ ChatMessage(s, [text |-> "chat"]))
             => /\ chatMessages'[Len(chatMessages')].userId = s
                /\ chatMessages'[Len(chatMessages')].user = users[s].name
                /\ chatMessages'[Len(chatMessages')].text = "chat"
                /\ \A i \in DOMAIN chatMessages, j \in DOMAIN chatMessages' :
                      chatMessages[i].id = chatMessages'[j].id
                      => chatMessages[i] = chatMessages'[j]]_vars

\* C12, witness: 105 messages were submitted, by more than one participant,
\* and the log holds 100 of them, the 6th first
C12_Witness ==
    /\ nextId = 105
    /\ Len(chatMessages) = 100
    /\ chatMessages[1].id = GenerateId(5)
    /\ chatMessages[100].id = GenerateId(104)
    /\ \E i, j \in DOMAIN chatMessages : chatMessages[i].userId # chatMessages[j].userId

\* a client event of socket s that refers to a note, a comment or a tag that
\* does not exist
MissingReference(s) ==
    \/ \E tagId \in TagIds :
          /\ \A i \in DOMAIN tags : tags[i].id # tagId
          /\ DeleteTag(s, tagId)
    \/ \E noteId \in RefIds, commentId \in RefIds :
          /\ FindNote(noteId) = 0
          /\ \/ NoteUpdateTags(s, [noteId |-> noteId, tags |-> <<"lighting">>])
             \/ NoteEditText(s, [noteId |-> noteId, newText |-> "edited"])
             \/ CommentSubmit(s, [noteId |-> noteId, text |-> "comment"])
             \/ CommentEdit(s, [noteId |-> noteId, commentId |-> commentId,
                                newText |-> "edited"])
             \/ CommentDelete(s, [noteId |-> noteId, commentId |-> commentId])
    \/ \E noteId \in RefIds, commentId \in RefIds :
          /\ FindNote(noteId) # 0
          /\ FindComment(notes[FindNote(noteId)].comments, commentId) = 0
          /\ \/ CommentEdit(s, [noteId |-> noteId, commentId |-> commentId,
                                newText |-> "edited"])
             \/ CommentDelete(s, [noteId |-> noteId, commentId |-> commentId])

\* C13 as the claim states it: a client event that refers to a note, a
\* comment or a tag that does not exist changes nothing of the shared state
\* and broadcasts nothing.
C13_AsClaimed ==
    [][\A s \in DOMAIN users :
          MissingReference(s) => (UNCHANGED sharedVars /\ outbox' = <<>>)]_vars

\* C14: while the OSC server is attached, a cue override of any session
\* leaves the canonical cue as it is and emits nothing, and the canonical
\* cue changes only in the handler of the OSC active-cue address; without
\* an OSC server the cue override of a participant sets the canonical cue to
\* the given label and broadcasts it.
C14_CueOverride ==
    [][/\ \A s \in DOMAIN users :
             /\ (oscAvailable /\ LxCueChange(s, SuppliedCue))
                   => (UNCHANGED currentLxCue /\ outbox' = <<>>)
             /\ (~oscAvailable /\ ~users[s].isOverlay /\ LxCueChange(s, SuppliedCue))
                   => /\ currentLxCue' = SuppliedCue
                      /\ outbox' = <<[to |-> DOMAIN users, ev |-> "lx-cue-update",
                                      data |-> SuppliedCue]>>
       /\ (oscAvailable /\ currentLxCue' # currentLxCue)
             => \E value \in OscValues : OscMessage(ActiveCueAddress, value)]_vars

\* C14, witness: without an OSC server, the override of a participant has
\* become the canonical cue and was broadcast to the participant and to an
\* overlay
C14_Witness ==
    /\ ~oscAvailable
    /\ currentLxCue = SuppliedCue
    /\ currentLxCue # InitialLxCue
    /\ Len(outbox) = 1
    /\ outbox[1].ev = "lx-cue-update"
    /\ \E s, o \in outbox[1].to \cap DOMAIN users :
          ~users[s].isOverlay /\ users[o].isOverlay

\* the connected non-overlay sessions
Participants == {s \in DOMAIN users : ~users[s].isOverlay}

\* the payload of a users-update is the roster: the records of the connected
\* non-overlay sessions, each once, and nothing else
IsRoster(data) ==
    /\ Len(data) = Cardinality(Participants)
    /\ \A k \in DOMAIN data : ~data[k].isOverlay
    /\ {data[k] : k \in DOMAIN data} = {users[s] : s \in Participants}

\* the userCount of a user-joined or user-left notice counts the connected
\* non-overlay sessions
CountsParticipants(e) ==
    e.ev \in {"user-joined", "user-left"}
    => e.data.userCount = Cardinality(Participants)

\* C15 as the claim states it: every users-update the server sends carries
\* exactly the connected non-overlay sessions, and the userCount of the
\* join and leave notices counts them.
C15_AsClaimed ==
    \A i \in DOMAIN outbox :
        /\ outbox[i].ev = "users-update" => IsRoster(outbox[i].data)
        /\ CountsParticipants(outbox[i])

\* C15: the users-update a connecting overlay is sent is empty; every other
\* users-update carries exactly the connected non-overlay sessions; the
\* userCount of the join and leave notices counts them.
C15_Roster ==
    \A i \in DOMAIN outbox :
        /\ outbox[i].ev = "users-update"
           => IF \E o \in DOMAIN users : users[o].isOverlay /\ outbox[i].to = {o}
              THEN outbox[i].data = <<>>
              ELSE IsRoster(outbox[i].data)
        /\ CountsParticipants(outbox[i])

\* C15, witness: a roster of two participants is sent while an overlay is
\* connected
C15_Witness ==
    /\ \E o \in DOMAIN users : users[o].isOverlay
    /\ \E i \in DOMAIN outbox :
          /\ outbox[i].ev = "users-update"
          /\ Len(outbox[i].data) = 2
          /\ \E o \in outbox[i].to \cap DOMAIN users : users[o].isOverlay

\* C16 as the claim states it: an OSC message under /bts/ sets the
\* canonical act to its payload and broadcasts an act-update exactly when
\* the payload differs from the canonical act.
C16_AsClaimed ==
    [][\A address \in OscAddresses, value \in OscValues :
          (StartsWith(address, ActPrefix) /\ OscMessage(address, value))
          => IF value # currentAct
             THEN /\ currentAct' = value
                  /\ outbox' = <<[to |-> DOMAIN users, ev |-> "act-update",
                                  data |-> value]>>
             ELSE UNCHANGED currentAct /\ outbox' = <<>>]_vars

\* C16: an OSC message under /bts/ sets the canonical act to its payload and
\* broadcasts an act-update exactly when the payload is not empty and
\* differs from the canonical act; so a repeated payload is broadcast once.
C16_ActUpdate ==
    [][\A address \in OscAddresses, value \in OscValues :
          (StartsWith(address, ActPrefix) /\ OscMessage(address, value))
          => IF value # <<>> /\ value # currentAct
             THEN /\ currentAct' = value
                  /\ outbox' = <<[to |-> DOMAIN users, ev |-> "act-update",
                                  data |-> value]>>
             ELSE UNCHANGED currentAct /\ outbox' = <<>>]_vars

\* C16, witness: an act that the OSC server received is the canonical act and
\* was broadcast to a connected session
C16_Witness ==
    /\ currentAct # InitialAct
    /\ DOMAIN users # {}
    /\ outbox = <<[to |-> DOMAIN users, ev |-> "act-update", data |-> currentAct]>>

\* the text contains the character c
Contains(text, c) == \E k \in DOMAIN text : text[k] = c

SentOnce(out, s, ev, data) ==
    \E i \in DOMAIN out :
        /\ {j \in DOMAIN out : out[j].ev = ev /\ s \in out[j].to} = {i}
        /\ out[i].to = {s}
        /\ out[i].data = data

\* C18: the connection of a session sends it, once each, the act, the
\* timecode, the notes, the tags, the time mode and the cue as they are
\* then; a participant is also sent once the roster of the non-overlay
\* sessions, itself among them, and once the chat log; an overlay is sent an
\* empty roster, no chat log, and its connection makes no user-joined notice.
C18_Snapshot ==
    [][\A clientIP \in ClientIPs, referer \in Referers :
          Connect(clientIP, referer)
          => LET s == nextSocket
                 roster == {i \in DOMAIN users' : ~users'[i].isOverlay}
             IN /\ SentOnce(outbox', s, "act-update", currentAct)
                /\ SentOnce(outbox', s, "timecode-update", timecode)
                /\ SentOnce(outbox', s, "notes-update", notes)
                /\ SentOnce(outbox', s, "tags-update", tags)
                /\ SentOnce(outbox', s, "time-mode-update", timeMode)
                /\ SentOnce(outbox', s, "lx-cue-update", currentLxCue)
                /\ UNCHANGED sharedVars
                /\ IF users'[s].isOverlay
                   THEN /\ SentOnce(outbox', s, "users-update", <<>>)
                        /\ \A i \in DOMAIN outbox' :
                              outbox'[i].ev \notin {"chat-messages-update",
                                                    "chat-message-added",
                                                    "user-joined"}
                   ELSE /\ SentOnce(outbox', s, "chat-messages-update", chatMessages)
                        /\ s \in roster
                        /\ \E i \in DOMAIN outbox' :
                              LET data == outbox'[i].data
                              IN /\ outbox'[i].ev = "users-update"
                                 /\ SentOnce(outbox', s, "users-update", data)
                                 /\ Len(data) = Cardinality(roster)
                                 /\ {data[k] : k \in DOMAIN data} =
                                       {users'[k] : k \in roster}]_vars

\* C18, witness: a participant has connected after another one had written
\* to the chat, and was sent the chat log and a roster of the two
C18_Witness ==
    \E s \in DOMAIN users :
        /\ chatMessages # <<>>
        /\ \A i \in DOMAIN chatMessages : chatMessages[i].userId # s
        /\ \E i, j \in DOMAIN outbox :
              /\ outbox[i] = [to |-> {s}, ev |-> "chat-messages-update",
                              data |-> chatMessages]
              /\ outbox[j].to = {s}
              /\ outbox[j].ev = "users-update"
              /\ Len(outbox[j].data) = 2

\* the step ends the session of socket s: its client closed the connection,
\* or the server disconnected it by force
Leaves(s) == Disconnect(s) \/ (s \in forced' /\ s \notin forced)

\* C19: a session that disconnects is removed from the registry and never
\* comes back, and no note, comment or chat message that is written later
\* has it as author; the disconnection of a participant sends every
\* remaining participant a user-left notice and a roster without it, the
\* disconnection of an overlay sends nothing; the notes, the comments and
\* the chat log stay as they are.
C19_Terminal ==
    [][/\ \A s \in DOMAIN users :
             Leaves(s)
             => /\ s \notin DOMAIN users'
                /\ UNCHANGED sharedVars
                /\ IF users[s].isOverlay
                   THEN outbox' = <<>>
                   ELSE LET remaining == {i \in DOMAIN users' : ~users'[i].isOverlay}
                        IN /\ Len(outbox') = 2
                           /\ outbox'[1].ev = "user-left"
                           /\ outbox'[1].data.user = users[s].name
                           /\ remaining \subseteq outbox'[1].to
                           /\ outbox'[2].ev = "users-update"
                           /\ remaining \subseteq outbox'[2].to
                           /\ {outbox'[2].data[k].id : k \in DOMAIN outbox'[2].data}
                                 = remaining
       /\ \A s \in 1..(nextSocket - 1) :
             s \notin DOMAIN users => s \notin DOMAIN users'
       /\ \A n \in DOMAIN notes' :
             /\ n > Len(notes) => notes'[n].userId \in DOMAIN users
             /\ n <= Len(notes)
                => \A c \in DOMAIN notes'[n].comments :
                      c > Len(notes[n].comments)
                      => notes'[n].comments[c].userId \in DOMAIN users
       /\ Len(chatMessages') > 0 /\ chatMessages' # chatMessages
             => chatMessages'[Len(chatMessages')].userId \in DOMAIN users]_vars

\* C19, witness: a participant that wrote a note has disconnected, another
\* session is still connected, and the note is still there
C19_Witness ==
    /\ Len(outbox) = 2
    /\ outbox[1].ev = "user-left"
    /\ DOMAIN users # {}
    /\ \E n \in DOMAIN notes :
          /\ notes[n].userId \notin DOMAIN users
          /\ notes[n].user = outbox[1].data.user

\* C20: the note a participant submits carries the supplied timecode and
\* cue, or the canonical ones of that moment when they are omitted, the
\* canonical act and the display name of its author; no step, whatever
\* changes the canonical timecode, cue or act, changes the timecode, the cue
\* or the act of a note that exists.
C20_NoteSnapshot ==
    [][/\ \A s \in DOMAIN users, data \in NoteData :
             (~users[s].isOverlay /\ NoteSubmit(s, data))
             => /\ Len(notes') = Len(notes) + 1
                /\ LET note == notes'[Len(notes')]
                   IN /\ note.timecode = IF data.timecode # <<>>
                                         THEN data.timecode[1] ELSE timecode
                      /\ note.lxCue = IF data.lxCue # <<>>
                                      THEN data.lxCue[1] ELSE currentLxCue
                      /\ note.act = currentAct
                      /\ note.user = users[s].name
                      /\ note.userId = s
       /\ Len(notes') >= Len(notes)
       /\ \A n \in DOMAIN notes :
             /\ notes'[n].timecode = notes[n].timecode
             /\ notes'[n].lxCue = notes[n].lxCue
             /\ notes'[n].act = notes[n].act]_vars

\* C20, witness: a note that took the canonical timecode and cue exists, and
\* the decoder and a cue have since changed both
C20_Witness ==
    \E n \in DOMAIN notes :
        /\ notes[n].timecode = InitialTimecode
        /\ notes[n].lxCue = InitialLxCue
        /\ timecode # InitialTimecode
        /\ currentLxCue # InitialLxCue

\* C21 as the claim states it: the canonical timecode has its hours in
\* 0..23, its minutes and seconds in 0..59, its frames below the frame rate,
\* and one of the four frame rates (in hundredths: frames * 100 is at most
\* frameRate - 100).
C21_AsClaimed ==
    /\ timecode.hours \in 0..23
    /\ timecode.minutes \in 0..59
    /\ timecode.seconds \in 0..59
    /\ timecode.frameRate \in {2400, 2500, 2997, 3000}
    /\ timecode.frames >= 0
    /\ timecode.frames * 100 <= timecode.frameRate - 100

\* C22: every slot of the quarter-frame buffer holds the nibble of the
\* fragment of its type that was received last, 0 if none was, in whatever
\* order the fragments come; a fragment of type t sets slot t and leaves the
\* other slots as they are, also when t is 7.
C22_LastNibble ==
    /\ [](\A i \in 0..7 : quarterFrameData[i] = lastNibble[i])
    /\ [][\A t \in FragmentTypes, v \in NibbleValues :
             (MidiMtcMessage(t, v) \/ MidiByteMessage(241, 16 * t + v))
             => /\ quarterFrameData'[t] = v
                /\ \A i \in 0..7 : i # t => quarterFrameData'[i] = quarterFrameData[i]]_vars

\* C22, witness: the type-7 fragment was handled while slot 1 held 13, its
\* nibble is still in slot 7, and a later fragment of type 1 has put 0 into
\* slot 1
C22_Witness ==
    /\ timecode.frames = 208
    /\ quarterFrameData[7] = 13
    /\ quarterFrameData[1] = 0
    /\ lastQuarterFrame = 1

\* the least element of a non-empty set of integers
Least(S) == CHOOSE j \in S : \A k \in S : j <= k

\* the text that follows position j
After(text, j) == SubSeq(text, j + 1, Len(text))

\* the positions of the slashes of a text
Slashes(text) == {j \in DOMAIN text : text[j] = "/"}

\* label is text without its leading and trailing whitespace
IsTrimOf(label, text) ==
    \E a, b \in 0..Len(text) :
        /\ a + Len(label) + b = Len(text)
        /\ \A k \in 1..a : IsWhitespace(text[k])
        /\ \A k \in (Len(text) - b + 1)..Len(text) : IsWhitespace(text[k])
        /\ \A k \in 1..Len(label) : label[k] = text[a + k]
        /\ label # <<>> => (~IsWhitespace(label[1]) /\ ~IsWhitespace(label[Len(label)]))

\* the step handles the OSC message lastOsc', which is on the active-cue
\* address
HandlesCue ==
    /\ events' = events + 1
    /\ lastOsc' # <<>>
    /\ lastOsc'[1].address = ActiveCueAddress
    /\ OscMessage(ActiveCueAddress, lastOsc'[1].value)

\* C23 as the claim states it: a payload on the active-cue address that
\* contains a slash makes the text after its first slash, trimmed, the
\* canonical cue.
C23_AsClaimed ==
    [][LET value == lastOsc'[1].value
       IN (HandlesCue /\ Slashes(value) # {})
          => IsTrimOf(currentLxCue', After(value, Least(Slashes(value))))]_vars

\* C23: the extractor looks for the first slash that has a character other
\* than a slash before it and at least one character after it.  When the
\* payload has such a slash, the text after it, trimmed, becomes the
\* canonical cue and is broadcast; for a payload that does not begin with a
\* slash and does not end with its first slash this is the first slash of the
\* payload.  When it has none, the payload is ignored.
C23_Extractor ==
    [][HandlesCue
          => LET value == lastOsc'[1].value
                 anchors == {j \in Slashes(value) :
                                j > 1 /\ j < Len(value) /\ value[j - 1] # "/"}
             IN /\ (value # <<>> /\ value[1] # "/" /\ Slashes(value) # {}
                       /\ Least(Slashes(value)) < Len(value))
                      => (anchors # {} /\ Least(anchors) = Least(Slashes(value)))
                /\ IF anchors = {}
                   THEN UNCHANGED currentLxCue /\ outbox' = <<>>
                   ELSE /\ IsTrimOf(currentLxCue', After(value, Least(anchors)))
                        /\ outbox' = <<[to |-> DOMAIN users, ev |-> "lx-cue-update",
                                        data |-> currentLxCue']>>]_vars

\* C23, witness: a payload with two slashes and whitespace around its label
\* was handled, and the canonical cue is what follows the first slash,
\* trimmed
C23_Witness ==
    /\ lastOsc = <<[address |-> ActiveCueAddress,
                    value |-> <<"5", "/", "/", " ">>]>>
    /\ currentLxCue = <<"/">>
    /\ outbox # <<>>

\* C24 as the claim states it: handling a payload of a wrong shape never
\* reaches the fatal-error path and leaves the shared production state as it
\* is.
C24_AsClaimed ==
    [][Malformed => (~crashed' /\ UNCHANGED sharedVars)]_vars

====
